---- MODULE Spec2Model ----
(***************************************************************************)
(* Model of the Insightz backend: backend/main.py (FastAPI routes, auth)   *)
(* and backend/ingest.py (ingestion pipeline).  Only the live code of      *)
(* both files is modelled (main.py 1-154, ingest.py 1-96); the rest of     *)
(* both files is commented-out earlier revisions.                          *)
(*                                                                         *)
(* Strings of the program that the code inspects are modelled as           *)
(* sequences: a file name is a sequence of segments (so that the "temp_"   *)
(* prefix and the extension are visible), a text is a sequence of          *)
(* characters.                                                             *)
(***************************************************************************)
EXTENDS Integers, Sequences, FiniteSets, TLC

VARIABLES
    users,       \* users.json: sequence of [username, password]
    docStore,    \* doc_store.json as json.load returns it: sequence of
                 \* metadata records, empty when the file is absent or
                 \* cannot be parsed
    cutOff,      \* the records in the text of a doc_store.json that a failed
                 \* write left incomplete: on disk, but json.load raises
    faissIndex,  \* faiss_index directory: [exists, docs]
    tempFiles,   \* temp_<filename> files present in the working directory
    now,         \* clock, in minutes (datetime.utcnow())
    issued,      \* log of the tokens /login has issued: [tok, iat]
    pending,     \* the /signup requests that have read users.json and not
                 \* yet answered, each with what it read
    last         \* the request served at this instant and its response

vars ==
    <<users, docStore, cutOff, faissIndex, tempFiles, now, issued, pending, last>>

----------------------------------------------------------------------------
(* Program constants *)

SECRET_KEY == "SECRET_KEY"
ACCESS_TOKEN_EXPIRE_MINUTES == 60
\* number of parameters of ingest.ingest_file, and number of arguments
\* upload_document passes to it
IngestFileParams == 1
UploadIngestArgs == 2
\* raw_text[:200], the length of a summary
SummaryChars == 200

(* Bounds of the model *)

\* the clock takes the values 0..Horizon-1 and the values around the expiry
\* of the tokens issued then
Horizon == 1
\* tokens /login issues in one behaviour
MaxIssued == 1
\* chunks the index holds before ingestion stops being called
MaxIndex == 3
\* /signup requests in flight at the same time (threads of the pool that
\* serves the handlers defined with def)
MaxPending == 2

----------------------------------------------------------------------------
(* Values *)

NoneVal == "<None>"          \* Python's None
Usernames == {"alice", "bob"}
Passwords == {"pw1", "pw2"}

\* file names, as segments: basename and extension
FileNames == { <<"a", ".pdf">>, <<"b", ".PNG">>, <<"c", ".txt">> }
ImageExts == {".png", ".jpg", ".jpeg", ".webp"}

\* texts are sequences of characters
Blank == {" ", "\n"}

\* a PDF is the sequence of its pages' texts (<<>>: extract_text() gave
\* None or "")
PdfContents == { << <<"x">>, <<"y">> >>, << <<>> >> }
\* what the vision model answers for an image
Descriptions == { <<"p", "\n", "q">>, <<>> }
\* what the classification call answers, before .strip()
Categories == { <<" ", "Invoice">> }

\* an uploaded or ingested file: its name and its content
Files ==
    { f \in [filename : FileNames, content : PdfContents \cup {<<>>}] :
        f.content # <<>> <=> f.filename = <<"a", ".pdf">> }

\* outcomes of the calls into the environment during one ingestion:
\* reading the file, the generative model, the embedding model, and
\* loading/merging/saving the existing index, and writing doc_store.json
\* (writeOk; a write that fails does so before the file is opened, or,
\* partial, after open(DB_FILE, "w") has emptied it)
\* (a step that fails ends the call, so the outcomes of the later steps are
\* fixed to one value: they are never consulted)
Vendor ==
    { v \in [readOk : BOOLEAN, llmOk : BOOLEAN, category : Categories,
             description : Descriptions, embedOk : BOOLEAN, mergeOk : BOOLEAN,
             writeOk : BOOLEAN, partial : BOOLEAN] :
        /\ ~v.readOk => ~v.llmOk /\ ~v.embedOk
        /\ ~v.llmOk => v.description = <<>>
        /\ ~v.embedOk => ~v.mergeOk /\ ~v.writeOk
        /\ v.partial => v.embedOk /\ ~v.writeOk }

----------------------------------------------------------------------------
(* String helpers *)

Min(a, b) == IF a < b THEN a ELSE b

\* s[:n]
Take(s, n) == SubSeq(s, 1, Min(n, Len(s)))

\* str.lower() on a file-name segment
LowerSeg(c) ==
    CASE c = ".PNG" -> ".png"
      [] c = ".PDF" -> ".pdf"
      [] OTHER -> c

Lower(name) == [i \in 1..Len(name) |-> LowerSeg(name[i])]

\* str.endswith(exts)
EndsWith(name, exts) == Len(name) > 0 /\ name[Len(name)] \in exts

\* str.replace(old, "") at segment granularity
Remove(name, old) == SelectSeq(name, LAMBDA c : c # old)

\* str.replace("\n", " ")
ReplaceNewlines(text) ==
    [i \in 1..Len(text) |-> IF text[i] = "\n" THEN " " ELSE text[i]]

RECURSIVE LStrip(_)
LStrip(text) ==
    IF text # <<>> /\ Head(text) \in Blank THEN LStrip(Tail(text)) ELSE text

RECURSIVE RStrip(_)
RStrip(text) ==
    IF text # <<>> /\ text[Len(text)] \in Blank
    THEN RStrip(SubSeq(text, 1, Len(text) - 1))
    ELSE text

\* str.strip()
Strip(text) == RStrip(LStrip(text))

----------------------------------------------------------------------------
(* backend/ingest.py *)

ImageFailed == <<"Image analysis failed.">>
NoSummary == <<"No summary.">>
Ellipsis == <<"...">>

\* process_image_with_gemini calling the model a second time when the first
\* call failed
process_image_with_gemini_Retry(v) ==
    IF v.llmOk THEN << <<"Picture">>, v.description, <<"describe">> >>
               ELSE << <<"Picture">>, ImageFailed, <<"describe", "describe">> >>

\* process_image_with_gemini: (category, text), and as third component the
\* model calls it made; a failed model call is swallowed
process_image_with_gemini(v) ==
    IF v.llmOk THEN << <<"Picture">>, v.description, <<"describe">> >>
               ELSE << <<"Picture">>, ImageFailed, <<"describe">> >>

\* extract_text_from_pdf: every page's text followed by a newline
RECURSIVE extract_text_from_pdf(_)
extract_text_from_pdf(pages) ==
    IF pages = <<>> THEN <<>>
    ELSE Head(pages) \o <<"\n">> \o extract_text_from_pdf(Tail(pages))

\* save_metadata without line 48: the new record is appended to whatever
\* the file holds
save_metadata_AppendOnly(store, filename, category, summary) ==
    Append(store,
           [filename |-> filename, category |-> category, summary |-> summary])

\* save_metadata: drop the records of this filename, append the new one
save_metadata(store, filename, category, summary) ==
    Append(SelectSeq(store, LAMBDA d : d.filename # filename),
           [filename |-> filename, category |-> category, summary |-> summary])

\* Document(page_content=raw_text, metadata={"source": file_path, "page": 1})
Document(text, file_path) ==
    [page_content |-> text, source |-> file_path, page |-> 1]

\* RecursiveCharacterTextSplitter.split_documents for a text that fits in one
\* chunk (chunk_size=1000): the stripped text, or nothing when it is blank
split_documents(pages) ==
    IF pages = <<>> \/ Strip(pages[1].page_content) = <<>> THEN <<>>
    ELSE << [pages[1] EXCEPT !.page_content = Strip(pages[1].page_content)] >>

\* the if/try/except around FAISS.load_local / merge_from / save_local
merge_into_index(index, new_db, v) ==
    IF index.exists
    THEN IF v.mergeOk THEN [exists |-> TRUE, docs |-> index.docs \o new_db]
                      ELSE [exists |-> TRUE, docs |-> new_db]
    ELSE [exists |-> TRUE, docs |-> new_db]

ErrorResult(msg) == [kind |-> "error", error |-> msg]
SuccessResult(category, summary) ==
    [kind |-> "Success", category |-> category, summary |-> summary]
Raised(exc) == [kind |-> "raised", error |-> exc]

\* outcome of a call of ingest_file that ends before the embedding step
Stopped(result, store, index, trace) ==
    [result |-> result, docStore |-> store, faissIndex |-> index, trace |-> trace,
     calls |-> <<>>, wrote |-> "nothing"]

\* outcome of a call whose json.dump failed after open(DB_FILE, "w"): the
\* file is left with the beginning of the new text, which no reader can parse
CutOff(outcome) == [outcome EXCEPT !.docStore = <<>>, !.wrote = "part"]

\* an outcome with the model calls made before it put in front of its own
Called(calls, outcome) == [outcome EXCEPT !.calls = calls \o @]

\* lines 80-96 with the metadata saved before the embedding, as an earlier
\* revision of ingest.py did
ingest_tail_MetadataFirst(file_path, original_filename, pages, category, summary, v, store, index) ==
    LET chunks == split_documents(pages)
        saved == save_metadata(store, original_filename, category, summary)
    IN
    IF ~v.writeOk
    THEN Stopped(Raised("doc_store.json"), store, index,
                 <<"extract", "chunk", "metadata">>)
    ELSE IF ~v.embedOk \/ chunks = <<>>
    THEN Called(<<"embed">>,
                Stopped(Raised("embedding"), saved, index,
                        <<"extract", "chunk", "metadata", "embed">>))
    ELSE [result |-> SuccessResult(category, summary),
          faissIndex |-> merge_into_index(index, chunks, v),
          docStore |-> saved,
          trace |-> <<"extract", "chunk", "metadata", "embed", "merge">>,
          calls |-> <<"embed">>, wrote |-> "all"]

\* lines 80-96 of ingest_file: chunk, embed, merge into the index, persist
\* the metadata; an exception of a step ends the call where it is raised
ingest_tail(file_path, original_filename, pages, category, summary, v, store, index) ==
    LET chunks == split_documents(pages)
        merged == merge_into_index(index, chunks, v)
    IN
    IF ~v.embedOk \/ chunks = <<>>
    THEN Called(<<"embed">>,
                Stopped(Raised("embedding"), store, index,
                        <<"extract", "chunk", "embed">>))
    ELSE IF ~v.writeOk
    THEN LET failed == Called(<<"embed">>,
                Stopped(Raised("doc_store.json"), store, merged,
                        <<"extract", "chunk", "embed", "merge", "metadata">>))
         IN IF v.partial THEN CutOff(failed) ELSE failed
    ELSE [result |-> SuccessResult(category, summary),
          faissIndex |-> merged,
          docStore |-> save_metadata(store, original_filename, category, summary),
          trace |-> <<"extract", "chunk", "embed", "merge", "metadata">>,
          calls |-> <<"embed">>, wrote |-> "all"]

\* the unparsable text of doc_store.json after a call of ingest_file for
\* filename: as before when the call did not open the file for writing, none
\* after a complete write, and after a write that failed half way the
\* records that save_metadata kept (line 48), the new record being cut
TextAfter(outcome, store, text, filename) ==
    CASE outcome.wrote = "nothing" -> text
      [] outcome.wrote = "all" -> <<>>
      [] outcome.wrote = "part" ->
            SelectSeq(store, LAMBDA d : d.filename # filename)

\* ingest_file without line 67: a PDF without text goes on to the
\* classification and the embedding
ingest_file_NoEmptyCheck(file_path, content, v, store, index) ==
    LET original_filename == Remove(file_path, "temp_") IN
    IF EndsWith(Lower(file_path), ImageExts)
    THEN IF ~v.readOk
         THEN Stopped(ErrorResult("Error: ..."), store, index, <<"extract">>)
         ELSE LET r == process_image_with_gemini(v)
              IN Called(r[3],
                        ingest_tail(file_path, original_filename,
                                    << Document(r[2], file_path) >>, r[1],
                                    Take(r[2], SummaryChars) \o Ellipsis,
                                    v, store, index))
    ELSE IF EndsWith(Lower(file_path), {".pdf"})
    THEN IF ~v.readOk
         THEN Stopped(ErrorResult("Error: ..."), store, index, <<"extract">>)
         ELSE LET raw_text == extract_text_from_pdf(content) IN
              Called(<<"classify">>,
                     ingest_tail(file_path, original_filename,
                          << Document(raw_text, file_path) >>,
                          IF v.llmOk THEN Strip(v.category) ELSE <<"General">>,
                          IF v.llmOk
                          THEN ReplaceNewlines(Take(raw_text, SummaryChars)) \o Ellipsis
                          ELSE NoSummary,
                          v, store, index))
    ELSE Stopped(ErrorResult("Unsupported format."), store, index, <<>>)

\* ingest_file(file_path): file_path names a file with the given content
ingest_file(file_path, content, v, store, index) ==
    LET original_filename == Remove(file_path, "temp_") IN
    IF EndsWith(Lower(file_path), ImageExts)
    THEN IF ~v.readOk
         THEN Stopped(ErrorResult("Error: ..."), store, index, <<"extract">>)
         ELSE LET r == process_image_with_gemini(v)
                  raw_text == r[2]
              IN Called(r[3],
                        ingest_tail(file_path, original_filename,
                                    << Document(raw_text, file_path) >>, r[1],
                                    Take(raw_text, SummaryChars) \o Ellipsis,
                                    v, store, index))
    ELSE IF EndsWith(Lower(file_path), {".pdf"})
    THEN IF ~v.readOk
         THEN Stopped(ErrorResult("Error: ..."), store, index, <<"extract">>)
         ELSE LET raw_text == extract_text_from_pdf(content) IN
              IF Strip(raw_text) = <<>>
              THEN Stopped(ErrorResult("PDF is empty."), store, index, <<"extract">>)
              ELSE Called(<<"classify">>,
                          ingest_tail(file_path, original_filename,
                               << Document(raw_text, file_path) >>,
                               IF v.llmOk THEN Strip(v.category) ELSE <<"General">>,
                               IF v.llmOk
                               THEN ReplaceNewlines(Take(raw_text, SummaryChars)) \o Ellipsis
                               ELSE NoSummary,
                               v, store, index))
    ELSE Stopped(ErrorResult("Unsupported format."), store, index, <<>>)

----------------------------------------------------------------------------
(* backend/main.py: helpers *)

\* load_json_db / save_json_db: the variables users and docStore hold the
\* parsed content of the files (an absent file reads as the empty list)
load_json_db(file) == file
save_json_db(data) == data

\* dict.get(key): None when the key is absent
Get(d, key) == IF key \in DOMAIN d THEN d[key] ELSE NoneVal

\* a JWT: the claims it carries and the key it was signed with
Token(sub, exp, key) == [sub |-> sub, exp |-> exp, key |-> key]

\* a request without Authorization header
NoToken == Token(NoneVal, 0, "<no header>")

\* create_access_token that adds the lifetime twice
create_access_token_Doubled(sub, t) ==
    Token(sub, t + 2 * ACCESS_TOKEN_EXPIRE_MINUTES, SECRET_KEY)

\* create_access_token(data={"sub": sub}) at time t
create_access_token(sub, t) ==
    Token(sub, t + ACCESS_TOKEN_EXPIRE_MINUTES, SECRET_KEY)

\* jwt.decode with verification of the signature switched off
jwt_decode_ok_Unverified(token, t) == t <= token.exp

\* jwt.decode: the signature is verified with SECRET_KEY and the exp claim
\* against the clock
jwt_decode_ok(token, t) == token.key = SECRET_KEY /\ t <= token.exp

Unauthorized(detail) == [ok |-> FALSE, status |-> 401, detail |-> detail, username |-> NoneVal]

\* next(u for u in users if u["username"] == username)
FirstUser(us, username) ==
    LET hits == SelectSeq(us, LAMBDA u : u.username = username)
    IN IF hits = <<>> THEN NoneVal ELSE hits[1].username

\* get_current_user that trusts the subject without looking it up
get_current_user_NoLookup(token, us, t) ==
    IF token = NoToken THEN Unauthorized("Not authenticated")
    ELSE IF ~jwt_decode_ok(token, t) THEN Unauthorized("Could not validate credentials")
    ELSE IF token.sub = NoneVal THEN Unauthorized("Could not validate credentials")
    ELSE [ok |-> TRUE, status |-> 200, detail |-> "", username |-> token.sub]

\* get_current_user, behind Depends(oauth2_scheme)
get_current_user(token, us, t) ==
    IF token = NoToken THEN Unauthorized("Not authenticated")
    ELSE IF ~jwt_decode_ok(token, t) THEN Unauthorized("Could not validate credentials")
    ELSE IF token.sub = NoneVal THEN Unauthorized("Could not validate credentials")
    ELSE IF FirstUser(load_json_db(us), token.sub) = NoneVal
         THEN Unauthorized("Could not validate credentials")
    ELSE [ok |-> TRUE, status |-> 200, detail |-> "",
          username |-> FirstUser(load_json_db(us), token.sub)]

\* list_documents that also returns the records that have no owner
OwnedBy_OrUnowned(docs, username) ==
    SelectSeq(docs, LAMBDA d : Get(d, "owner") \in {username, NoneVal})

\* the list comprehension of list_documents
OwnedBy(docs, username) ==
    SelectSeq(docs, LAMBDA d : Get(d, "owner") = username)

\* temp_filename = f"temp_{file.filename}"
TempName(filename) == <<"temp_">> \o filename

\* the list comprehension and the loop of generate_cross_summary: one line
\* per stored record whose filename is selected
\* a selection that keeps every stored record
SelectedDocs_All(docs, filenames) == docs

SelectedDocs(docs, filenames) ==
    SelectSeq(docs, LAMBDA d : d.filename \in filenames)

PromptLine(d) ==
    [filename |-> d.filename, category |-> d.category,
     summary |-> IF "summary" \in DOMAIN d THEN d.summary ELSE <<>>]

CombinedText(docs) == [i \in 1..Len(docs) |-> PromptLine(docs[i])]

----------------------------------------------------------------------------
(* State *)

\* the clock values of the model
TimePoints ==
    { t \in 0..(ACCESS_TOKEN_EXPIRE_MINUTES + Horizon) :
        t < Horizon \/ t >= ACCESS_TOKEN_EXPIRE_MINUTES - 1 }

NoIndex == [exists |-> FALSE, docs |-> <<>>]

\* doc_store.json and faiss_index as the program finds them when it starts:
\* nothing yet, or what an earlier deployment left (records that carry an
\* owner, which list_documents reads with d.get("owner"))
LegacyRecord(filename, owner) ==
    [filename |-> filename, category |-> <<"General">>, summary |-> NoSummary,
     owner |-> owner, timestamp |-> 0]

DiskImages ==
    { [docStore |-> <<>>, faissIndex |-> NoIndex],
      [docStore |-> << LegacyRecord(<<"b", ".PNG">>, "bob"),
                       LegacyRecord(<<"r", ".pdf">>, "alice") >>,
       faissIndex |-> [exists |-> TRUE,
                       docs |-> << Document(<<"x">>, <<"temp_", "r", ".pdf">>),
                                   Document(<<"p">>, <<"temp_", "b", ".PNG">>) >>]] }

Idle == [op |-> "none"]

Init ==
    /\ users = <<>>
    /\ \E img \in DiskImages :
          /\ docStore = img.docStore
          /\ faissIndex = img.faissIndex
    /\ cutOff = <<>>
    /\ tempFiles = {}
    /\ now = 0
    /\ issued = {}
    /\ pending = <<>>
    /\ last = Idle

\* tokens a client can present: those /login issued, none, and tokens made
\* elsewhere (any subject or none, signed with SECRET_KEY or another key)
Presentable ==
    { i.tok : i \in issued } \cup {NoToken}
    \cup { Token(sub, now + ACCESS_TOKEN_EXPIRE_MINUTES, key) :
            sub \in Usernames \cup {NoneVal}, key \in {SECRET_KEY, "other key"} }

----------------------------------------------------------------------------
(* Operations *)

\* Requests are served one at a time: last holds the request being served
\* and its response until the response has been returned to the client.
Respond ==
    /\ last # Idle
    /\ last' = Idle
    /\ UNCHANGED <<users, docStore, cutOff, faissIndex, tempFiles, now, issued, pending>>

\* time passes between requests
Tick ==
    /\ last = Idle
    /\ \E t \in TimePoints : t > now /\ now' = t
    /\ last' = Idle
    /\ UNCHANGED <<users, docStore, cutOff, faissIndex, tempFiles, issued, pending>>

\* POST /signup
signup(username, password) ==
    LET creds == [username |-> username, password |-> password]
        us == load_json_db(users)
    IN
    /\ last = Idle
    /\ IF \E i \in 1..Len(us) : us[i].username = username
       THEN /\ users' = users
            /\ last' = [op |-> "signup", creds |-> creds, status |-> 400,
                        detail |-> "Username already taken"]
       ELSE /\ users' = save_json_db(Append(us, creds))
            /\ last' = [op |-> "signup", creds |-> creds, status |-> 200,
                        detail |-> "Ranger registered successfully"]
    /\ UNCHANGED <<docStore, cutOff, faissIndex, tempFiles, now, issued, pending>>

\* POST /signup served by a thread of the pool, in the two steps between
\* which another request can run: line 84 reads users.json ...
signup_load(username, password) ==
    /\ Len(pending) < MaxPending
    /\ pending' = Append(pending,
                         [creds |-> [username |-> username, password |-> password],
                          users |-> load_json_db(users)])
    /\ UNCHANGED <<users, docStore, cutOff, faissIndex, tempFiles, now, issued, last>>

\* ... and lines 85-89 check what was read, append to it, save and answer
signup_check_save(k) ==
    LET creds == pending[k].creds
        us == pending[k].users
    IN
    /\ IF \E i \in 1..Len(us) : us[i].username = creds.username
       THEN /\ users' = users
            /\ last' = [op |-> "signup", creds |-> creds, status |-> 400,
                        detail |-> "Username already taken"]
       ELSE /\ users' = save_json_db(Append(us, creds))
            /\ last' = [op |-> "signup", creds |-> creds, status |-> 200,
                        detail |-> "Ranger registered successfully"]
    /\ pending' = [i \in 1..(Len(pending) - 1) |->
                      pending[IF i < k THEN i ELSE i + 1]]
    /\ UNCHANGED <<docStore, cutOff, faissIndex, tempFiles, now, issued>>

\* pending without its k-th request
Without(reqs, k) ==
    [i \in 1..(Len(reqs) - 1) |-> reqs[IF i < k THEN i ELSE i + 1]]

\* POST /signup with the write of save_json_db in its two steps: lines 85-87
\* check and append, and open(filename, "w") of line 55 empties users.json
\* (a json.load of the file raises until the text is complete, and
\* load_json_db then returns []) ...
signup_check_open(k) ==
    LET creds == pending[k].creds
        us == pending[k].users
    IN
    /\ "before" \notin DOMAIN pending[k]
    /\ IF \E i \in 1..Len(us) : us[i].username = creds.username
       THEN /\ users' = users
            /\ last' = [op |-> "signup", creds |-> creds, status |-> 400,
                        detail |-> "Username already taken"]
            /\ pending' = Without(pending, k)
       ELSE /\ users' = <<>>
            /\ last' = last
            /\ pending' = [pending EXCEPT ![k] =
                              [creds |-> creds, users |-> us, before |-> users]]
    /\ UNCHANGED <<docStore, cutOff, faissIndex, tempFiles, now, issued>>

\* ... and json.dump writes the text, the file is closed, line 89 answers
signup_dump_return(k) ==
    LET creds == pending[k].creds
        us == pending[k].users
    IN
    /\ "before" \in DOMAIN pending[k]
    /\ users' = save_json_db(Append(us, creds))
    /\ last' = [op |-> "signup", creds |-> creds, status |-> 200,
                detail |-> "Ranger registered successfully"]
    /\ pending' = Without(pending, k)
    /\ UNCHANGED <<docStore, cutOff, faissIndex, tempFiles, now, issued>>

\* login that compares the username only
MatchingUsers_UsernameOnly(us, username, password) ==
    SelectSeq(us, LAMBDA u : u.username = username)

\* the generator expression of login
MatchingUsers(us, username, password) ==
    SelectSeq(us, LAMBDA u : u.username = username /\ u.password = password)

\* POST /login
login(username, password) ==
    LET creds == [username |-> username, password |-> password]
        hits == MatchingUsers(load_json_db(users), username, password)
    IN
    /\ last = Idle
    /\ IF hits # <<>>
       THEN LET token == create_access_token(hits[1].username, now) IN
            /\ Cardinality(issued \cup {[tok |-> token, iat |-> now]}) <= MaxIssued
            /\ issued' = issued \cup {[tok |-> token, iat |-> now]}
            /\ last' = [op |-> "login", creds |-> creds, status |-> 200,
                        detail |-> "", token |-> token,
                        username |-> hits[1].username]
       ELSE /\ issued' = issued
            /\ last' = [op |-> "login", creds |-> creds, status |-> 401,
                        detail |-> "Invalid credentials", token |-> NoToken,
                        username |-> NoneVal]
    /\ UNCHANGED <<users, docStore, cutOff, faissIndex, tempFiles, now, pending>>

\* GET /documents
list_documents(token) ==
    LET current_user == get_current_user(token, users, now) IN
    /\ last = Idle
    /\ IF ~current_user.ok
       THEN last' = [op |-> "documents", token |-> token,
                     user |-> current_user.username,
                     status |-> current_user.status,
                     detail |-> current_user.detail, body |-> <<>>]
       ELSE last' = [op |-> "documents", token |-> token,
                     user |-> current_user.username, status |-> 200,
                     detail |-> "",
                     body |-> OwnedBy(load_json_db(docStore), current_user.username)]
    /\ UNCHANGED <<users, docStore, cutOff, faissIndex, tempFiles, now, issued, pending>>

\* the call ingest_file(temp_filename, current_user.username) of
\* upload_document: Python raises TypeError when the number of positional
\* arguments is not the number of parameters of the function
call_ingest_file(nargs, file_path, content, v, store, index) ==
    IF nargs # IngestFileParams
    THEN Stopped(Raised("TypeError"), store, index, <<>>)
    ELSE ingest_file(file_path, content, v, store, index)

\* POST /upload
upload_document(token, file) ==
    LET current_user == get_current_user(token, users, now)
        temp_filename == TempName(file.filename)
    IN
    /\ last = Idle
    /\ IF ~current_user.ok
       THEN /\ last' = [op |-> "upload", token |-> token, file |-> file,
                        user |-> current_user.username,
                        status |-> current_user.status,
                        detail |-> current_user.detail,
                        result |-> ErrorResult(current_user.detail),
                        trace |-> <<>>, calls |-> <<>>]
            /\ UNCHANGED <<docStore, cutOff, faissIndex, tempFiles>>
       ELSE \E v \in Vendor :
            LET r == call_ingest_file(UploadIngestArgs, temp_filename,
                                      file.content, v, docStore, faissIndex)
            IN
            /\ docStore' = r.docStore
            /\ cutOff' = TextAfter(r, docStore, cutOff, file.filename)
            /\ faissIndex' = r.faissIndex
            /\ tempFiles' = IF r.result.kind = "raised"
                            THEN tempFiles \cup {temp_filename}
                            ELSE tempFiles \ {temp_filename}
            /\ last' = [op |-> "upload", token |-> token, file |-> file,
                        user |-> current_user.username,
                        status |-> IF r.result.kind = "raised" THEN 500 ELSE 200,
                        detail |-> "", result |-> r.result, trace |-> r.trace,
                        calls |-> r.calls]
    /\ UNCHANGED <<users, now, issued, pending>>

\* a direct call ingest_file(file_path) of the ingest module, on a file
\* temp_<filename> as upload_document names it
IngestFile(file, v) ==
    LET file_path == TempName(file.filename)
        r == ingest_file(file_path, file.content, v, docStore, faissIndex)
    IN
    /\ last = Idle
    /\ Len(faissIndex.docs) < MaxIndex
    /\ docStore' = r.docStore
    /\ cutOff' = TextAfter(r, docStore, cutOff, file.filename)
    /\ faissIndex' = r.faissIndex
    /\ last' = [op |-> "ingest_file", file |-> file, file_path |-> file_path,
                status |-> IF r.result.kind = "raised" THEN 500 ELSE 200,
                result |-> r.result, trace |-> r.trace, calls |-> r.calls]
    /\ UNCHANGED <<users, tempFiles, now, issued, pending>>

\* which of the calls of search_documents raises, if any: FAISS.load_local,
\* the retrieval or the generation of qa_chain.invoke
SearchFailures == {"none", "load", "retrieve", "generate"}

Offline == <<"System offline. Please upload a document first.">>

\* vector_store.as_retriever(): the chunks of the index, nearest first; which
\* chunk is nearest (the i-th) is the environment's choice.  The index of the
\* model holds no more chunks than the retriever returns.
SourceDocuments(index, i) ==
    << index.docs[i] >>
    \o [k \in 1..(Len(index.docs) - 1) |->
          index.docs[IF k < i THEN k ELSE k + 1]]

\* the dict search_documents returns without its citation
search_body_NoCitation(response) == [answer |-> response.result]

\* the dict search_documents returns from the chain's response
search_body(response) ==
    [answer |-> response.result,
     citation |-> <<"Source: Page", response.source_documents[1].page>>]

\* search_documents that goes on to load the index when there is none
search_response_NoOfflineCheck(index, query, failing, i) ==
    [op |-> "search", query |-> query, failing |-> failing, status |-> 500,
     body |-> [detail |-> "Internal Server Error"], sources |-> <<>>,
     calls |-> <<"load">>]

\* search_documents: the response, the retrieved chunks and the calls made
search_response(index, query, failing, i) ==
    LET Failed(calls) ==
            [op |-> "search", query |-> query, failing |-> failing,
             status |-> 500, body |-> [detail |-> "Internal Server Error"],
             sources |-> <<>>, calls |-> calls]
    IN
    IF ~index.exists
    THEN [op |-> "search", query |-> query, failing |-> failing, status |-> 200,
          body |-> [answer |-> Offline], sources |-> <<>>, calls |-> <<>>]
    ELSE IF failing = "load" THEN Failed(<<"load">>)
    ELSE IF failing = "retrieve" THEN Failed(<<"load", "retrieve">>)
    ELSE IF failing = "generate" THEN Failed(<<"load", "retrieve", "generate">>)
    ELSE LET response == [result |-> <<"answer">>,
                          source_documents |-> SourceDocuments(index, i)]
         IN [op |-> "search", query |-> query, failing |-> failing,
             status |-> 200, body |-> search_body(response),
             sources |-> response.source_documents,
             calls |-> <<"load", "retrieve", "generate">>]

\* GET /search
search_documents(query, failing) ==
    /\ last = Idle
    /\ \E i \in IF faissIndex.docs = <<>> THEN {1} ELSE 1..Len(faissIndex.docs) :
          last' = search_response(faissIndex, query, failing, i)
    /\ UNCHANGED <<users, docStore, cutOff, faissIndex, tempFiles, now, issued, pending>>

\* POST /cross-summary; prompt is what the generative model is given
generate_cross_summary(filenames, llmOk) ==
    LET all_docs == load_json_db(docStore)
        selected_docs == SelectedDocs(all_docs, filenames)
    IN
    /\ last = Idle
    /\ IF selected_docs = <<>>
       THEN last' = [op |-> "cross_summary", filenames |-> filenames,
                     status |-> 200, prompt |-> <<>>, calls |-> <<>>,
                     cross_summary |-> "No matching documents found in selection."]
       ELSE IF ~llmOk
       THEN last' = [op |-> "cross_summary", filenames |-> filenames,
                     status |-> 500, prompt |-> CombinedText(selected_docs),
                     calls |-> <<"generate">>, cross_summary |-> NoneVal]
       ELSE last' = [op |-> "cross_summary", filenames |-> filenames,
                     status |-> 200, prompt |-> CombinedText(selected_docs),
                     calls |-> <<"generate">>, cross_summary |-> "response.content"]
    /\ UNCHANGED <<users, docStore, cutOff, faissIndex, tempFiles, now, issued, pending>>

Next ==
    \/ Respond
    \/ Tick
    \/ \E u \in Usernames, p \in Passwords : signup(u, p)
    \/ \E u \in Usernames, p \in Passwords : login(u, p)
    \/ \E token \in Presentable : list_documents(token)
    \/ \E token \in Presentable, file \in Files : upload_document(token, file)
    \/ \E file \in Files, v \in Vendor : IngestFile(file, v)
    \/ \E failing \in SearchFailures : search_documents("q", failing)
    \/ \E filenames \in SUBSET FileNames, ok \in BOOLEAN :
          generate_cross_summary(filenames, ok)
    \/ \E u \in Usernames, p \in Passwords : signup_load(u, p)
    \/ \E k \in 1..Len(pending) : signup_check_save(k)
    \/ \E k \in 1..Len(pending) : signup_check_open(k)
    \/ \E k \in 1..Len(pending) : signup_dump_return(k)

Spec == Init /\ [][Next]_vars

\* the files uploaded under SpecAuth: a PDF with text and an image
UploadedFiles ==
    { f \in Files : f.content \in {<<>>, << <<"x">>, <<"y">> >>}
                    /\ f.filename # <<"c", ".txt">> }

\* Next restricted to the operations of the auth layer and the two routes it
\* gates.  None of them reads or writes what the other operations write
\* (doc_store.json, faiss_index), so every behaviour of SpecAuth is a
\* behaviour of Spec.
NextAuth ==
    \/ Respond
    \/ Tick
    \/ \E u \in Usernames, p \in Passwords : signup(u, p)
    \/ \E u \in Usernames, p \in Passwords : login(u, p)
    \/ \E token \in Presentable : list_documents(token)
    \/ \E token \in Presentable, file \in UploadedFiles :
          upload_document(token, file)

SpecAuth == Init /\ [][NextAuth]_vars

\* Next restricted to the operations on the documents, at a fixed time, with
\* users that sign up with one password; every behaviour of SpecDocs is a
\* behaviour of Spec.
NextDocs ==
    \/ Respond
    \/ \E u \in Usernames : signup(u, "pw1")
    \/ \E token \in Presentable : list_documents(token)
    \/ \E file \in Files, v \in Vendor : IngestFile(file, v)
    \/ \E failing \in SearchFailures : search_documents("q", failing)
    \/ \E filenames \in SUBSET FileNames, ok \in BOOLEAN :
          generate_cross_summary(filenames, ok)

SpecDocs == Init /\ [][NextDocs]_vars

\* POST /signup requests that overlap: signup is defined with def, so each
\* request runs on a thread of the pool and nothing orders the read of one
\* and the write of another
NextSignup ==
    \/ \E u \in Usernames, p \in Passwords : signup_load(u, p)
    \/ \E k \in 1..Len(pending) : signup_check_save(k)

SpecSignup == Init /\ [][NextSignup]_vars

\* requests that read users.json while signups write it
NextOverlap ==
    \/ Respond
    \/ \E u \in Usernames, p \in Passwords : signup_load(u, p)
    \/ \E k \in 1..Len(pending) : signup_check_open(k)
    \/ \E k \in 1..Len(pending) : signup_dump_return(k)
    \/ \E u \in Usernames, p \in Passwords : login(u, p)
    \/ \E token \in Presentable : list_documents(token)

SpecOverlap == Init /\ [][NextOverlap]_vars

\* file names a client can give an upload, among them names that contain
\* the prefix upload_document adds
UploadNames ==
    { <<"a", ".pdf">>, <<"temp_", "a", ".pdf">>,
      <<"b", ".PNG">>, <<"b", "temp_", ".PNG">> }

NamedFiles ==
    { [filename |-> n,
       content |-> IF EndsWith(Lower(n), {".pdf"}) THEN << <<"x">>, <<"y">> >>
                   ELSE <<>>] : n \in UploadNames }

\* ingestion of files under these names, each stored as temp_<filename>
\* the way upload_document stores it before it calls ingest_file
NextNames ==
    \/ Respond
    \/ \E file \in NamedFiles, v \in Vendor : IngestFile(file, v)

SpecNames == Init /\ [][NextNames]_vars

----------------------------------------------------------------------------
(* Vocabulary of the properties *)

IsPrefix(s, t) == Len(s) <= Len(t) /\ SubSeq(t, 1, Len(s)) = s

\* s is t with some elements left out, order kept
RECURSIVE IsSubsequence(_, _)
IsSubsequence(s, t) ==
    IF s = <<>> THEN TRUE
    ELSE IF t = <<>> THEN FALSE
    ELSE IF Head(s) = Head(t) THEN IsSubsequence(Tail(s), Tail(t))
    ELSE IsSubsequence(s, Tail(t))

HasOwner(d, u) == "owner" \in DOMAIN d /\ d.owner = u

Registered(u) == \E i \in 1..Len(users) : users[i].username = u

\* a token that authenticates user u now: signed with the key, not expired,
\* and u has a user record
ValidTokenOf(token, u) ==
    /\ token.key = SECRET_KEY
    /\ token.sub = u
    /\ now <= token.exp
    /\ u \in Usernames
    /\ Registered(u)

\* the files ingestion supports: an image, or a PDF with non-blank text
Supported(file) ==
    \/ LowerSeg(file.filename[Len(file.filename)]) \in ImageExts
    \/ /\ LowerSeg(file.filename[Len(file.filename)]) = ".pdf"
       /\ \E i \in 1..Len(file.content) :
            \E j \in 1..Len(file.content[i]) : file.content[i][j] \notin Blank

----------------------------------------------------------------------------
(* C1: GET /documents with a valid token of user u answers 200 with exactly
   the records of doc_store.json whose owner is u, in the order of the store:
   no record of another user, no record without owner, none of u's left
   out. *)
C1_ListsExactlyOwnRecords ==
    \A u \in Usernames :
        (last.op = "documents" /\ ValidTokenOf(last.token, u)) =>
            /\ last.status = 200
            /\ IsSubsequence(last.body, docStore)
            /\ \A i \in 1..Len(last.body) : HasOwner(last.body[i], u)
            /\ Len(last.body) =
                 Cardinality({ i \in 1..Len(docStore) : HasOwner(docStore[i], u) })

\* a listing that returns a record while the store also holds a record of
\* another user and a record without owner
C1_Witness ==
    /\ last.op = "documents"
    /\ last.status = 200
    /\ last.body # <<>>
    /\ \E i \in 1..Len(docStore) :
          "owner" \in DOMAIN docStore[i] /\ docStore[i].owner # last.token.sub
    /\ \E i \in 1..Len(docStore) : "owner" \notin DOMAIN docStore[i]

(* C2: every ingestion that returns Success has written a record for the
   file that carries filename, category, summary, owner and timestamp, the
   owner being the uploader that /upload authenticated. *)
C2_SuccessWritesOwnedRecord ==
    (last.op \in {"ingest_file", "upload"} /\ last.result.kind = "Success") =>
        \E i \in 1..Len(docStore) :
            /\ docStore[i].filename = last.file.filename
            /\ {"filename", "category", "summary", "owner", "timestamp"}
                 \subseteq DOMAIN docStore[i]
            /\ last.op = "upload" => docStore[i].owner = last.user

(* C3: a POST /upload of a supported file with a valid token of a registered
   user u completes with a result, and from then on GET /documents of u lists
   a record for the file (stated on the state the upload leaves: the listing
   of u, as list_documents computes it, has a record of that file). *)
C3_UploadIsListed ==
    \A u \in Usernames :
        (last.op = "upload" /\ ValidTokenOf(last.token, u)
         /\ Supported(last.file)) =>
            /\ last.status = 200
            /\ \E i \in 1..Len(docStore) :
                  /\ docStore[i].filename = last.file.filename
                  /\ HasOwner(docStore[i], u)

\* docs without the records that user a owns
WithoutOwner(docs, a) == SelectSeq(docs, LAMBDA d : ~HasOwner(d, a))

\* the stored file name a chunk of the index belongs to
ChunkFile(chunk) == Remove(chunk.source, "temp_")

(* C4: no endpoint exposes the documents of a user A to anyone else: the
   response a caller other than A gets is the response the caller would get
   if A's documents were not there.  /search and /cross-summary take no
   token, so their caller is not A for any A. *)
C4_OwnerScopedOnEveryEndpoint ==
    \A a \in Usernames :
        /\ (last.op = "documents" /\ last.user # a) =>
               last.body = OwnedBy(WithoutOwner(docStore, a), last.user)
        /\ (last.op = "cross_summary") =>
               last.prompt = CombinedText(SelectedDocs(WithoutOwner(docStore, a),
                                                       last.filenames))
        /\ (last.op = "search") =>
               \A k \in 1..Len(last.sources) :
                   \A i \in 1..Len(docStore) :
                       HasOwner(docStore[i], a) =>
                           ChunkFile(last.sources[k]) # docStore[i].filename

----------------------------------------------------------------------------
HasRecord(us, username, password) ==
    \E i \in 1..Len(us) :
        us[i] = [username |-> username, password |-> password]

\* what /login answers, against users.json
C5_LoginResponse ==
    last.op = "login" =>
        IF HasRecord(users, last.creds.username, last.creds.password)
        THEN /\ last.status = 200
             /\ last.token.key = SECRET_KEY
             /\ last.token.sub = last.creds.username
             /\ last.username = last.creds.username
        ELSE /\ last.status = 401
             /\ last.detail = "Invalid credentials"
             /\ last.token = NoToken

\* a successful signup leaves the record, and no step takes a record away
C5_RecordsPersist ==
    /\ (last = Idle /\ last'.op = "signup" /\ last'.status = 200) =>
           HasRecord(users', last'.creds.username, last'.creds.password)
    /\ \A u \in Usernames, p \in Passwords :
           HasRecord(users, u, p) => HasRecord(users', u, p)

(* C5: POST /login returns a token exactly when users.json holds a record
   with the submitted username and password, the token's subject being that
   username; otherwise it answers 401 'Invalid credentials' without a token.
   A signup that succeeded leaves such a record and no step removes or
   changes it, so the user can log in with that password from then on. *)
C5_LoginIffRecordMatches == []C5_LoginResponse /\ [][C5_RecordsPersist]_vars

\* a login that succeeds after time has passed since the signup
C5_Witness ==
    /\ last.op = "login"
    /\ last.status = 200
    /\ now > 0

(* C6: on every /documents and /upload request, a user is returned only for
   a token signed with the key, carrying a subject that is the username of a
   record of users.json, and then the user is that subject; a bad signature,
   a missing subject or a subject without record each give 401 'Could not
   validate credentials'. *)
C6_CurrentUserIsTokenSubject ==
    last.op \in {"documents", "upload"} =>
        /\ last.user # NoneVal =>
              /\ last.token.key = SECRET_KEY
              /\ last.token.sub # NoneVal
              /\ Registered(last.token.sub)
              /\ last.user = last.token.sub
        /\ (/\ last.token # NoToken
            /\ \/ last.token.key # SECRET_KEY
               \/ last.token.sub = NoneVal
               \/ ~Registered(last.token.sub)) =>
              /\ last.status = 401
              /\ last.detail = "Could not validate credentials"
              /\ last.user = NoneVal

\* an upload with a well-signed token whose subject has no user record
C6_Witness ==
    /\ last.op = "upload"
    /\ last.token.key = SECRET_KEY
    /\ last.token.sub \in Usernames
    /\ ~Registered(last.token.sub)
    /\ last.status = 401
    /\ users # <<>>

(* C7: a token /login issued at time t is accepted by get_current_user at
   every time up to t + 60 minutes and rejected (401) at every later time;
   the requests that present it are answered accordingly. *)
C7_TokenExpiresAfterSixtyMinutes ==
    \A i \in issued :
        /\ get_current_user(i.tok, users, now).ok
              <=> now <= i.iat + ACCESS_TOKEN_EXPIRE_MINUTES
        /\ (last.op \in {"documents", "upload"} /\ last.token = i.tok) =>
              (last.status # 401 <=> now <= i.iat + ACCESS_TOKEN_EXPIRE_MINUTES)

\* a listing with an issued token, one minute after its last valid minute
C7_Witness ==
    /\ last.op = "documents"
    /\ last.status = 401
    /\ \E i \in issued :
          /\ last.token = i.tok
          /\ now = i.iat + ACCESS_TOKEN_EXPIRE_MINUTES + 1

\* a token that is missing, invalid or expired
Rejectable(token) ==
    \/ token = NoToken
    \/ token.key # SECRET_KEY
    \/ token.sub = NoneVal
    \/ ~Registered(token.sub)
    \/ now > token.exp

C8_RejectedRequestChangesNothing ==
    (/\ last = Idle
     /\ last'.op \in {"documents", "upload"}
     /\ Rejectable(last'.token)) =>
        /\ last'.status = 401
        /\ UNCHANGED <<docStore, users, faissIndex, tempFiles>>
        /\ last'.op = "documents" => last'.body = <<>>
        /\ last'.op = "upload" =>
              /\ last'.trace = <<>>
              /\ last'.result.kind = "error"

(* C8: a /upload or /documents request whose token is missing, invalid or
   expired ends in 401, leaves doc_store.json, users.json, the index and the
   working directory as they were, runs no step of ingestion and returns no
   document record. *)
C8_GatedByToken == [][C8_RejectedRequestChangesNothing]_vars

\* an upload with an expired token of a registered user, rejected
C8_Witness ==
    /\ last.op = "upload"
    /\ last.status = 401
    /\ last.token.key = SECRET_KEY
    /\ Registered(last.token.sub)
    /\ now > last.token.exp

Pipeline == <<"extract", "chunk", "embed", "merge", "metadata">>

C9_StepsInPipelineOrder ==
    (last = Idle /\ last'.op = "ingest_file") =>
        /\ IsPrefix(last'.trace, Pipeline)
        /\ last'.result.kind = "Success" => last'.trace = Pipeline
        /\ docStore' # docStore =>
              /\ faissIndex'.exists
              /\ \E k \in 1..Len(faissIndex'.docs) :
                    faissIndex'.docs[k].source = last'.file_path
        /\ last'.trace # Pipeline =>
              /\ docStore' = docStore
              /\ faissIndex' = faissIndex

(* C9: within one ingest_file call the steps extract, chunk, embed,
   merge-into-index, persist-metadata run at most once each and in that
   order; the metadata record is written only after the index has been
   persisted with the document's chunks, and a call that stops early has
   changed neither. *)
C9_LinearPipeline == [][C9_StepsInPipelineOrder]_vars

\* an ingestion that reached the metadata step and failed there: the index
\* has the document's chunk, the store has no record of it
C9_Witness ==
    /\ last.op = "ingest_file"
    /\ last.result = Raised("doc_store.json")
    /\ \E k \in 1..Len(faissIndex.docs) :
          faissIndex.docs[k].source = last.file_path
    /\ \A i \in 1..Len(docStore) : docStore[i].filename # last.file.filename

(* C10: indexing is cumulative: an ingestion only adds chunks to the
   persisted index and never removes or replaces the chunks that earlier
   documents contributed. *)
C10_IndexOnlyGrows == [][IsPrefix(faissIndex.docs, faissIndex'.docs)]_vars

----------------------------------------------------------------------------
C11_OneLoadRetrieveGenerate ==
    /\ (/\ last = Idle
        /\ last'.op = "search"
        /\ faissIndex.exists
        /\ last'.failing = "none") =>
           /\ last'.calls = <<"load", "retrieve", "generate">>
           /\ last'.status = 200
           /\ DOMAIN last'.body = {"answer", "citation"}
           /\ last'.sources # <<>>
           /\ \E k \in 1..Len(faissIndex.docs) :
                 last'.sources[1] = faissIndex.docs[k]
           /\ last'.body.citation = <<"Source: Page", last'.sources[1].page>>
    /\ (last = Idle /\ last'.op = "search") =>
           UNCHANGED <<faissIndex, docStore, users>>

(* C11: when a persisted index exists and the external calls succeed, a GET
   /search makes exactly one index load, then one retrieval, then one
   generation call, and answers with an answer and a page citation taken
   from the first retrieved chunk; /search writes neither the index nor
   doc_store.json nor users.json. *)
C11_SearchIsRetrieveThenGenerate == [][C11_OneLoadRetrieveGenerate]_vars

\* a search answered from an index of several chunks whose nearest chunk is
\* not the first of the index
C11_Witness ==
    /\ last.op = "search"
    /\ last.failing = "none"
    /\ "citation" \in DOMAIN last.body
    /\ Len(faissIndex.docs) > 1
    /\ last.sources[1] # faissIndex.docs[1]

----------------------------------------------------------------------------
NoDuplicates(s) == \A i, j \in 1..Len(s) : i # j => s[i] # s[j]

\* the calls of the Google models and of the index a request can make
VendorCalls == {"describe", "classify", "embed", "load", "retrieve", "generate"}

C12_EachCallAtMostOnce ==
    last.op \in {"ingest_file", "upload", "search", "cross_summary"} =>
        /\ NoDuplicates(last.calls)
        /\ \A k \in 1..Len(last.calls) : last.calls[k] \in VendorCalls

C12_NothingAfterTheResponse ==
    last # Idle =>
        UNCHANGED <<users, docStore, cutOff, faissIndex, tempFiles, issued>>

(* C12: within one request each external call (image description, PDF
   classification, embedding, retrieval, generation) is attempted at most
   once, so a failed call is not attempted again; and after the response of
   a request has been produced, nothing changes any more on its behalf: the
   step that returns it changes no file. *)
C12_NoRetriesNoBackgroundWork ==
    []C12_EachCallAtMostOnce /\ [][C12_NothingAfterTheResponse]_vars

\* an image whose description call failed and that was embedded all the
\* same: the failed call was made once
C12_Witness ==
    /\ last.op = "ingest_file"
    /\ last.result.kind = "Success"
    /\ last.result.summary = ImageFailed \o Ellipsis
    /\ last.calls = <<"describe", "embed">>

----------------------------------------------------------------------------
\* the positions of doc_store.json whose filename is in the selection
SelectedAt(filenames) ==
    { i \in 1..Len(docStore) : docStore[i].filename \in filenames }

C13_PromptOfSelection ==
    last.op = "cross_summary" =>
        LET at == SelectedAt(last.filenames) IN
        /\ Len(last.prompt) = Cardinality(at)
        /\ \A i \in at :
              LET k == Cardinality({ j \in at : j <= i }) IN
              /\ last.prompt[k].filename = docStore[i].filename
              /\ last.prompt[k].category = docStore[i].category
              /\ last.prompt[k].summary = docStore[i].summary
        /\ \A k \in 1..Len(last.prompt) :
              last.prompt[k].filename \in last.filenames

C13_StoreUntouched ==
    (last = Idle /\ last'.op = "cross_summary") => UNCHANGED docStore

(* C13: the prompt of POST /cross-summary has exactly one line per stored
   record whose filename is in the selection, in the order of doc_store.json,
   with that record's filename, category and summary; no line for a record
   that is not selected; a selected filename without record adds nothing;
   the request leaves doc_store.json as it was. *)
C13_PromptIsExactlyTheSelection ==
    []C13_PromptOfSelection /\ [][C13_StoreUntouched]_vars

\* a selection of two stored files and one that is not stored, while the
\* store holds a record that is not selected
C13_Witness ==
    /\ last.op = "cross_summary"
    /\ last.status = 200
    /\ Len(last.prompt) = 2
    /\ \E f \in last.filenames :
          \A i \in 1..Len(docStore) : docStore[i].filename # f
    /\ \E i \in 1..Len(docStore) : docStore[i].filename \notin last.filenames

----------------------------------------------------------------------------
C14_OfflineWithoutIndex ==
    last.op = "search" =>
        IF ~faissIndex.exists
        THEN /\ last.status = 200
             /\ last.body = [answer |-> Offline]
             /\ last.calls = <<>>
             /\ last.sources = <<>>
        ELSE "answer" \in DOMAIN last.body => last.body.answer # Offline

C14_IndexStays ==
    /\ (/\ last = Idle
        /\ last'.op \in {"ingest_file", "upload"}
        /\ last'.result.kind = "Success") => faissIndex'.exists
    /\ faissIndex.exists => faissIndex'.exists

(* C14: while no faiss_index exists, every GET /search answers 200 with the
   fixed answer 'System offline. Please upload a document first.', without
   citation and without any load, retrieval or generation call.  An
   ingestion that returns Success has persisted an index, no step removes
   the index, and a search over an existing index never gives the offline
   answer: so after the first Success no search is answered offline. *)
C14_OfflineOnlyBeforeFirstIngestion ==
    []C14_OfflineWithoutIndex /\ [][C14_IndexStays]_vars

\* a search answered from the chunk of a file ingested since the start,
\* on a disk that held no index at the start
C14_Witness ==
    /\ last.op = "search"
    /\ "citation" \in DOMAIN last.body
    /\ ChunkFile(last.sources[1]) = <<"a", ".pdf">>
    /\ Len(faissIndex.docs) = 1
    /\ \A i \in 1..Len(docStore) : "owner" \notin DOMAIN docStore[i]

----------------------------------------------------------------------------
\* the positions of a store that hold a record of filename f
RecordsOf(store, f) == { i \in 1..Len(store) : store[i].filename = f }

C15_OneRecordPerFilename ==
    \A i, j \in 1..Len(docStore) :
        docStore[i].filename = docStore[j].filename => i = j

C15_SavedRecordIsLast ==
    (/\ last = Idle
     /\ last'.op = "ingest_file"
     /\ last'.result.kind = "Success") =>
        /\ docStore' # <<>>
        /\ docStore'[Len(docStore')] =
              [filename |-> last'.file.filename,
               category |-> last'.result.category,
               summary |-> last'.result.summary]
        /\ RecordsOf(docStore', last'.file.filename) = {Len(docStore')}
        /\ Len(docStore') = Len(docStore) + 1
                             - Cardinality(RecordsOf(docStore, last'.file.filename))

(* C15: doc_store.json never holds two records with the same filename; a
   save for a filename that has a record removes that record and puts the
   new one, with the new category and summary, at the end. *)
C15_MetadataIsPerDocument ==
    []C15_OneRecordPerFilename /\ [][C15_SavedRecordIsLast]_vars

\* b.PNG, whose record stood first in the store, is ingested again: its new
\* record stands last, behind the record of r.pdf
C15_Witness ==
    /\ last.op = "ingest_file"
    /\ last.result.kind = "Success"
    /\ last.file.filename = <<"b", ".PNG">>
    /\ Len(docStore) = 2
    /\ docStore[1] = LegacyRecord(<<"r", ".pdf">>, "alice")
    /\ docStore[2].filename = <<"b", ".PNG">>
    /\ docStore[2].category = <<"Picture">>

----------------------------------------------------------------------------
(* C16: an upload by a user B leaves every record that belongs to another
   user A as it was, also when the uploaded file has the filename of one of
   A's documents, so that A's listing is the same afterwards.  ingest_file
   is not given the uploader, so what it does for one B it does for every B:
   the records of every user A are to be what they were. *)
C16_UploadKeepsOthersRecords ==
    [][(last = Idle /\ last'.op \in {"ingest_file", "upload"}) =>
          \A a \in Usernames : OwnedBy(docStore', a) = OwnedBy(docStore, a)]_vars

----------------------------------------------------------------------------
\* the records of a store with a filename other than f
Others(store, f) == SelectSeq(store, LAMBDA d : d.filename # f)

\* the records in doc_store.json, parsable or not
OnDisk == docStore \o cutOff

(* C17: a call of save_metadata for filename f keeps every record with
   another filename, unchanged and in the same order, whatever state
   doc_store.json is in when it is called (absent, valid, or left incomplete
   by an earlier write); the recorded filenames never become fewer. *)
C17_SaveKeepsOtherRecords ==
    [][(/\ last = Idle
        /\ last'.op \in {"ingest_file", "upload"}
        /\ last'.result.kind = "Success") =>
          /\ Others(OnDisk', last'.file.filename) = Others(OnDisk, last'.file.filename)
          /\ { OnDisk[i].filename : i \in 1..Len(OnDisk) }
                \subseteq { docStore'[i].filename : i \in 1..Len(docStore') }]_vars

----------------------------------------------------------------------------
C18_UniqueUsernames ==
    \A i, j \in 1..Len(users) : users[i].username = users[j].username => i = j

\* a signup that answers 200 does so for a username that has no record
C18_SuccessOnlyForFreeUsername ==
    (Len(pending') < Len(pending) /\ last'.status = 200) =>
        ~Registered(last'.creds.username)

(* C18: usernames are unique: users.json never holds two records with the
   same username, also when the load and save steps of two signups for one
   username interleave, and of several signups for a free username exactly
   one answers 'Ranger registered successfully': a signup succeeds only
   while the username has no record. *)
C18_OneSignupPerUsername ==
    []C18_UniqueUsernames /\ [][C18_SuccessOnlyForFreeUsername]_vars

----------------------------------------------------------------------------
C19_SignupAppendsOrRefuses ==
    Len(pending') < Len(pending) =>
        /\ Registered(last'.creds.username) =>
              /\ last'.status = 400
              /\ last'.detail = "Username already taken"
              /\ users' = users
        /\ last'.status = 200 => users' = Append(users, last'.creds)

C19_RecordsStay ==
    \A u \in Usernames, p \in Passwords :
        HasRecord(users, u, p) => HasRecord(users', u, p)

(* C19: a signup for a username that has a record answers 400 'Username
   already taken' and leaves users.json as it is; a signup that succeeds
   appends one record and leaves the others as they are; so no step removes
   a user record or changes its password, also when signups for different
   usernames overlap. *)
C19_SignupNeverLosesARecord ==
    [][C19_SignupAppendsOrRefuses /\ C19_RecordsStay]_vars

----------------------------------------------------------------------------
\* the extension of a file name, in lower case
Extension(filename) == LowerSeg(filename[Len(filename)])

\* a file none of whose pages has a character that is not white space
OnlyWhitespace(file) ==
    \A i \in 1..Len(file.content) :
        \A j \in 1..Len(file.content[i]) : file.content[i][j] \in Blank

C20_ErrorForEachCase ==
    last.op = "ingest_file" =>
        /\ last.result.kind \in {"error", "Success", "raised"}
        /\ last.result.kind = "error" =>
              /\ DOMAIN last.result = {"kind", "error"}
              /\ last.result.error
                    \in {"Unsupported format.", "PDF is empty.", "Error: ..."}
              /\ last.result.error = "PDF is empty." =>
                    Extension(last.file.filename) = ".pdf" /\ OnlyWhitespace(last.file)
        /\ last.result.kind = "Success" =>
              DOMAIN last.result = {"kind", "category", "summary"}
        /\ Extension(last.file.filename) \notin ImageExts \cup {".pdf"} <=>
              last.result = ErrorResult("Unsupported format.")
        /\ (Extension(last.file.filename) = ".pdf" /\ OnlyWhitespace(last.file)) =>
              last.result \in {ErrorResult("PDF is empty."), ErrorResult("Error: ...")}

C20_ErrorChangesNothing ==
    (/\ last = Idle
     /\ last'.op = "ingest_file"
     /\ last'.result.kind = "error") =>
        /\ UNCHANGED <<faissIndex, docStore, cutOff>>
        /\ \A k \in 1..Len(last'.calls) : last'.calls[k] # "embed"
        /\ \A k \in 1..Len(last'.trace) : last'.trace[k] # "embed"

(* C20: ingest_file returns an error result for an unsupported extension
   ('Unsupported format.'), for a PDF whose text is only white space ('PDF
   is empty.') and for an exception during extraction ('Error: ...'); then
   faiss_index and doc_store.json are exactly as before the call and no
   embedding call was made; what it returns is an error or a Success, never
   both. *)
C20_ErrorResultLeavesNoTrace ==
    []C20_ErrorForEachCase /\ [][C20_ErrorChangesNothing]_vars

\* a PDF of blank pages, refused while the index and the store hold the
\* documents of earlier ingestions
C20_Witness ==
    /\ last.op = "ingest_file"
    /\ last.result = ErrorResult("PDF is empty.")
    /\ Len(last.file.content) > 0
    /\ Len(faissIndex.docs) > 1
    /\ docStore # <<>>

----------------------------------------------------------------------------
\* raw_text[:200].replace("\n", " ") + "..." for the text of a PDF
PdfSummary(content) ==
    ReplaceNewlines(Take(extract_text_from_pdf(content), SummaryChars)) \o Ellipsis

(* C21: every PDF that is ingested with Success, the one whose
   classification call failed included, has as summary the first 200
   characters of its extracted text, newlines replaced by spaces, followed
   by '...', in the result and in its record; when the classification
   failed the category is 'General'. *)
C21_PdfSummaryIsTextPrefix ==
    (/\ last.op = "ingest_file"
     /\ last.result.kind = "Success"
     /\ Extension(last.file.filename) = ".pdf") =>
        /\ last.result.summary = PdfSummary(last.file.content)
        /\ last.result.category \in {<<"General">>} \cup { Strip(c) : c \in Categories }
        /\ docStore # <<>>
        /\ docStore[Len(docStore)].summary = PdfSummary(last.file.content)

----------------------------------------------------------------------------
(* C22: the file temp_<filename> that /upload writes is gone when the
   request has ended, whatever ingestion did (Success, an error result, an
   exception raised inside ingest_file): after no sequence of uploads is
   there a temp_ file in the working directory.  A request is one step, so
   every state is one in which all requests so far have ended. *)
C22_NoTempFileLeft ==
    /\ tempFiles = {}
    /\ last.op = "upload" => TempName(last.file.filename) \notin tempFiles

----------------------------------------------------------------------------
\* the filename ingest_file stores for an upload named n
StoredName(n) == Remove(TempName(n), "temp_")

(* C23: the prefix 'temp_' that /upload puts in front of the filename and
   ingest_file takes away again round-trips: the record written for an
   upload named n has filename n, and uploads with different names are
   stored under different filenames. *)
C23_TempPrefixRoundTrips ==
    (last.op = "ingest_file" /\ last.result.kind = "Success") =>
        /\ docStore # <<>>
        /\ docStore[Len(docStore)].filename = last.file.filename
        /\ \A m \in UploadNames :
              m # last.file.filename =>
                  StoredName(m) # docStore[Len(docStore)].filename

----------------------------------------------------------------------------
\* the contents users.json had when a write that is still going on began
BeingRewritten ==
    { pending[k].before :
        k \in { j \in 1..Len(pending) : "before" \in DOMAIN pending[j] } }

C24_ReadDuringWrite ==
    \A before \in BeingRewritten :
        /\ (/\ last = Idle
            /\ last'.op = "login"
            /\ HasRecord(before, last'.creds.username, last'.creds.password)) =>
               last'.status = 200
        /\ (/\ last = Idle
            /\ last'.op = "documents"
            /\ last'.token # NoToken
            /\ last'.token.key = SECRET_KEY
            /\ now <= last'.token.exp
            /\ \E i \in 1..Len(before) : before[i].username = last'.token.sub) =>
               last'.status = 200

(* C24: a read that overlaps a write sees the committed data: while a
   /signup is rewriting users.json, a /login of a user registered before
   that write began succeeds, and get_current_user finds every user
   registered before it began (and in the same way a /documents or
   /cross-summary during a rewrite of doc_store.json uses every record
   stored before it): no reader observes an empty or cut file. *)
C24_ReadersSeeCommittedData == [][C24_ReadDuringWrite]_vars

----------------------------------------------------------------------------
\* the chunks of the index that come from the file stored as filename
ChunksOf(index, filename) ==
    { k \in 1..Len(index.docs) : ChunkFile(index.docs[k]) = filename }

(* C25: after any sequence of ingestions, re-ingestions of a filename and
   ingestions that fail after the index step included, index and metadata
   agree: every chunk of faiss_index belongs to a document that has a
   record in doc_store.json, and to its current version (a document of one
   chunk has one chunk in the index), and every record of doc_store.json
   has a chunk in the index. *)
C25_IndexMatchesMetadata ==
    /\ \A k \in 1..Len(faissIndex.docs) :
          /\ RecordsOf(docStore, ChunkFile(faissIndex.docs[k])) # {}
          /\ Cardinality(ChunksOf(faissIndex, ChunkFile(faissIndex.docs[k]))) = 1
    /\ \A i \in 1..Len(docStore) :
          ChunksOf(faissIndex, docStore[i].filename) # {}

====
